---- MODULE Spec2Model ----
(***************************************************************************)
(* Femmora: the client-side session store (AuthContext.tsx), the routing   *)
(* gate (App.tsx), the preference store (LanguageContext.tsx) and the quiz *)
(* rotation engine (BrainQuizzesScreen.tsx), over the browser's            *)
(* localStorage.                                                           *)
(*                                                                         *)
(* A localStorage item is modelled by how the code reads it:               *)
(*   [kind |-> "absent"]          getItem returns null                     *)
(*   [kind |-> "empty"]           the empty string (falsy, not JSON)       *)
(*   [kind |-> "garbage"]         a non-empty string JSON.parse rejects    *)
(*   [kind |-> "jsonNonArray"]    JSON text of a value without .includes   *)
(*                                (null, a number, an object)              *)
(*   [kind |-> "json", val |-> v] JSON.stringify(v)                        *)
(*   [kind |-> "text", val |-> s] the non-empty string s, stored as it is  *)
(* The seen-question array is kept as a bag of ids: the code only asks     *)
(* includes() of it and pushes to it, so the order of the ids is never     *)
(* observed, while the number of copies of an id is.                       *)
(***************************************************************************)
EXTENDS Integers, Sequences, FiniteSets, Bags, TLC

VARIABLES
  storage,               \* localStorage: one item per key
  isAuthenticated,       \* AuthProvider state
  user,                  \* AuthProvider state (NoUser is null)
  loading,               \* AuthProvider state
  route,                 \* the HashRouter location
  error,                 \* the form error of the mounted auth screen
  quizState,             \* BrainQuizzesScreen state
  currentQuestions,
  currentQuestionIndex,
  score,
  selectedAnswer,
  answerStatus,
  thrown,                \* the exception the last quiz handler let escape, or "none"
  \* history variables (observers, never read by the program's actions)
  lastAuthOp,            \* "none" | "login" | "logout": the last login/logout call
  lastLoginUser,         \* the argument of the last login call
  initRead,              \* the session item as the last mount effect found it
  restored,              \* TRUE from a mount effect until the next login/logout
  answers,               \* the options submitted since the last start of a quiz
  lastDraw,              \* "none" | "reset" | "kept": what the last draw did to the seen record
  nextCallsHere,         \* handleNextQuestion calls made on the current question (2: two or more)
  presented,             \* ids shown to the user in the current pass over the pool
  earlyRepeat,           \* a question was shown again before the pool was exhausted
  batchLog,              \* the batches drawn so far (as sets), oldest first
  resetLog,              \* for each of them: did the draw remove the seen record
  language,              \* LanguageProvider state
  \* more history variables
  lastTranslate,         \* the last translate call: arguments, language read, result
  lastSetLang,           \* the argument of the last setLanguage call ("": none yet)
  lastSubmit,            \* the auth form submitted by the step just taken, if any
  loginCall,             \* the login call made by the step just taken, if any
  submitCall,            \* the direct call of handleSubmitAnswer made by the step just taken, if any
  handlerCall            \* the quiz handler run by the step just taken, if any, and the state it ran in

authVars  == <<isAuthenticated, user, loading>>
quizVars  == <<quizState, currentQuestions, currentQuestionIndex, score,
               selectedAnswer, answerStatus>>
authHist  == <<lastAuthOp, lastLoginUser, initRead, restored>>
quizHist  == <<answers, lastDraw, nextCallsHere, presented, earlyRepeat,
               batchLog, resetLog>>
langVars  == <<language, lastTranslate, lastSetLang>>
formNotes == <<lastSubmit, loginCall>>
vars      == <<storage, authVars, route, error, quizVars, thrown, authHist, quizHist,
               langVars, formNotes, submitCall, handlerCall>>

----------------------------------------------------------------------------
(* Bounds of the model.  The code's pool has 20 questions of 4 options and  *)
(* a batch has 5; the model keeps the pool a whole number of batches.       *)

\* size of the question pool
PoolSize == 4
\* questions per batch
QUESTIONS_PER_BATCH == 2
\* options per question
NumOptions == 2
\* handler-level runs: handleSubmitAnswer is not called once score is MaxScore
MaxScore == 2

----------------------------------------------------------------------------
(* localStorage items *)

Absent       == [kind |-> "absent"]
EmptyString  == [kind |-> "empty"]
Garbage      == [kind |-> "garbage"]
JsonNonArray == [kind |-> "jsonNonArray"]

\* JSON.stringify of a value the code writes
JSONstringify(v) == [kind |-> "json", val |-> v]

\* JSON.parse: the value, or a SyntaxError
JSONparse(item) ==
  IF item.kind = "json" THEN [ok |-> TRUE, val |-> item.val, array |-> TRUE]
  ELSE IF item.kind = "jsonNonArray" THEN [ok |-> TRUE, array |-> FALSE]
  ELSE [ok |-> FALSE]

\* `if (stored)`: getItem gave a non-empty string
Truthy(item) == item.kind \notin {"absent", "empty"}

setItem(key, item) == [storage EXCEPT ![key] = item]
removeItem(key)    == [storage EXCEPT ![key] = Absent]

----------------------------------------------------------------------------
(* Users *)

NoUser   == [id |-> "", name |-> "", email |-> ""]
DemoUser == [id |-> "1", name |-> "Demo User", email |-> "user@example.com"]

Names     == {"", "Asha"}
Emails    == {"", "user@example.com", "asha@example.com"}
Passwords == {"", "password", "secret"}
\* Date.now().toString() at registration
Timestamps == {"1700000000000"}

----------------------------------------------------------------------------
(* Quiz data *)

\* the ids of allMockQuestions
AllMockQuestionIds == 1..PoolSize

\* the option at position i of question q: exactly one option of a question
\* is the correct one, at a position that varies with the question
Option(q, i) == [text |-> i, isCorrect |-> (i = (q % NumOptions) + 1)]
Options(q)   == {Option(q, i) : i \in 1..NumOptions}

\* selectedAnswer = null
NoAnswer == [text |-> 0, isCorrect |-> FALSE]

\* the useState initial values of BrainQuizzesScreen
QuizUnmounted ==
  /\ quizState' = "idle"
  /\ currentQuestions' = << >>
  /\ currentQuestionIndex' = 0
  /\ score' = 0
  /\ selectedAnswer' = NoAnswer
  /\ answerStatus' = "unanswered"

----------------------------------------------------------------------------
(* Routing: App.tsx *)

PublicRoutes    == {"WELCOME", "REGISTER", "LOGIN"}
ProtectedRoutes == {"HOME", "SETTINGS", "WOMEN_AWARENESS", "WOMEN_LAW_AWARENESS",
                    "BRAIN_QUIZZES", "EMERGENCY_CONTACTS", "HELP", "SMART_PATHWAY",
                    "AWARENESS_LIFE_SKILLS", "LEARN_TO_USE_APPS"}
\* a location no Route path matches but "*"
Unmatched       == "UNMATCHED"
Locations       == PublicRoutes \cup ProtectedRoutes \cup {Unmatched}

Screen(r)   == [kind |-> "screen", at |-> r]
Navigate(r) == [kind |-> "navigate", at |-> r]
LoadingView == [kind |-> "loading", at |-> "LOADING"]

ProtectedRoute_NoGate(children) == children

\* <ProtectedRoute>children</ProtectedRoute>
ProtectedRoute(children) ==
  IF ~isAuthenticated THEN Navigate("LOGIN") ELSE children

\* the element of the Route that matches location r
RouteElement(r) ==
  IF r \in PublicRoutes THEN Screen(r)
  ELSE IF r \in ProtectedRoutes THEN ProtectedRoute(Screen(r))
  ELSE Navigate("WELCOME")

Rendered_NoLoadingGate == RouteElement(route)

\* what AuthProvider renders: the loading screen, or its children (the router)
Rendered ==
  IF loading THEN LoadingView ELSE RouteElement(route)

\* a change of location unmounts the screen that was shown: its component
\* state (form error, quiz state) is gone
GoTo(r) ==
  /\ route' = r
  /\ IF r = route
     THEN UNCHANGED <<error, quizVars>>
     ELSE error' = "" /\ QuizUnmounted

----------------------------------------------------------------------------
(* Session Store: AuthContext.tsx *)

mountEffect_KeepCorrupt ==
  /\ LET storedUser == storage.femmoraUser
         parsed     == JSONparse(storedUser)
     IN  IF Truthy(storedUser) /\ parsed.ok
         THEN /\ user' = parsed.val
              /\ isAuthenticated' = TRUE
              /\ UNCHANGED storage
         ELSE UNCHANGED <<storage, user, isAuthenticated>>
  /\ loading' = FALSE

mountEffect_NoAuthFlag ==
  /\ LET storedUser == storage.femmoraUser
         parsed     == JSONparse(storedUser)
     IN  IF Truthy(storedUser)
         THEN IF parsed.ok
              THEN /\ user' = parsed.val
                   /\ UNCHANGED <<storage, isAuthenticated>>
              ELSE /\ storage' = removeItem("femmoraUser")
                   /\ UNCHANGED <<user, isAuthenticated>>
         ELSE UNCHANGED <<storage, user, isAuthenticated>>
  /\ loading' = FALSE

\* the mount effect of AuthProvider
mountEffect ==
  /\ LET storedUser == storage.femmoraUser
         parsed     == JSONparse(storedUser)
     IN  IF Truthy(storedUser)
         THEN IF parsed.ok
              THEN /\ user' = parsed.val
                   /\ isAuthenticated' = TRUE
                   /\ UNCHANGED storage
              ELSE \* catch: the data is corrupt, remove it
                   /\ storage' = removeItem("femmoraUser")
                   /\ UNCHANGED <<user, isAuthenticated>>
         ELSE UNCHANGED <<storage, user, isAuthenticated>>
  /\ loading' = FALSE

login_NoPersist(userData) ==
  /\ user' = userData
  /\ isAuthenticated' = TRUE
  /\ UNCHANGED storage

login_OnlyWhenSignedOut(userData) ==
  IF isAuthenticated
  THEN UNCHANGED <<user, isAuthenticated, storage>>
  ELSE /\ user' = userData
       /\ isAuthenticated' = TRUE
       /\ storage' = setItem("femmoraUser", JSONstringify(userData))

login(userData) ==
  /\ user' = userData
  /\ isAuthenticated' = TRUE
  /\ storage' = setItem("femmoraUser", JSONstringify(userData))

logout_KeepRecord ==
  /\ user' = NoUser
  /\ isAuthenticated' = FALSE
  /\ UNCHANGED storage

logout_ClearAll ==
  /\ user' = NoUser
  /\ isAuthenticated' = FALSE
  /\ storage' = [femmoraUser |-> Absent,
                 femmoraLanguage |-> Absent,
                 femmoraSeenQuizQuestions |-> Absent]

logout ==
  /\ user' = NoUser
  /\ isAuthenticated' = FALSE
  /\ storage' = removeItem("femmoraUser")

----------------------------------------------------------------------------
(* Preference Store: LanguageContext.tsx *)

\* the Language enumeration (types.ts): the raw values are short codes
Language_EN == "en"
Language_HI == "hi"
Language_TA == "ta"
Languages   == {Language_EN, Language_HI, Language_TA}

\* the translation table (constants.ts): key -> language -> text.  Two
\* entries stand for it: one with a text for every language, one with a
\* text for English only
UI_TEXT ==
  [login     |-> [en |-> "Login", hi |-> "Login (hi)", ta |-> "Login (ta)"],
   startQuiz |-> [en |-> "Start Quiz"]]

\* a string kept in localStorage as it is
Text(s) == [kind |-> "text", val |-> s]

\* the keys translate is called with: the empty key, a key with every
\* language, a key with English only, a key the table does not have
TranslationKeys == {"", "login", "startQuiz", "noSuchKey"}

\* the optional defaultText argument: left out (undefined), empty, non-empty
Undefined    == << >>
DefaultTexts == {Undefined, <<"">>, <<"Fallback">>}

\* the initializer of useState<Language>
LanguageProvider_initialState ==
  LET storedLang == storage.femmoraLanguage
  IN  IF Truthy(storedLang) THEN storedLang.val ELSE Language_EN

setLanguage_NoPersist(lang) ==
  /\ language' = lang
  /\ UNCHANGED storage

setLanguage(lang) ==
  /\ language' = lang
  /\ storage' = setItem("femmoraLanguage", Text(lang))

\* `defaultText || key`
OrKey(defaultText, key) ==
  IF defaultText # Undefined /\ defaultText[1] # "" THEN defaultText[1] ELSE key

translate_NoKeyFallback(key, defaultText) ==
  IF /\ key \in DOMAIN UI_TEXT
     /\ language \in DOMAIN UI_TEXT[key]
     /\ UI_TEXT[key][language] # ""
  THEN UI_TEXT[key][language]
  ELSE OrKey(defaultText, "")

translate_EnglishOnly(key, defaultText) ==
  IF /\ key \in DOMAIN UI_TEXT
     /\ Language_EN \in DOMAIN UI_TEXT[key]
     /\ UI_TEXT[key][Language_EN] # ""
  THEN UI_TEXT[key][Language_EN]
  ELSE OrKey(defaultText, key)

\* translate: UI_TEXT[key] and UI_TEXT[key][language] are undefined when
\* the table has no such field, and an empty text is falsy too
translate(key, defaultText) ==
  IF /\ key \in DOMAIN UI_TEXT
     /\ language \in DOMAIN UI_TEXT[key]
     /\ UI_TEXT[key][language] # ""
  THEN UI_TEXT[key][language]
  ELSE OrKey(defaultText, key)

----------------------------------------------------------------------------
(* Auth screens and sidebar *)

InvalidLogin    == "Invalid email or password. (Hint: user@example.com / password)"
PasswordsDiffer == "Passwords do not match."
FillAllFields   == "Please fill in all fields."

DemoCredentials(email, password) ==
  email = "user@example.com" /\ password = "password"

LoginScreen_handleSubmit_AnyPassword(email, password) ==
  IF email = "user@example.com"
  THEN /\ login(DemoUser)
       /\ GoTo("HOME")
  ELSE /\ error' = InvalidLogin
       /\ UNCHANGED <<storage, user, isAuthenticated, route, quizVars>>

\* LoginScreen.handleSubmit
LoginScreen_handleSubmit(email, password) ==
  IF DemoCredentials(email, password)
  THEN /\ login(DemoUser)
       /\ GoTo("HOME")
  ELSE /\ error' = InvalidLogin
       /\ UNCHANGED <<storage, user, isAuthenticated, route, quizVars>>

\* the two validation checks of RegistrationScreen.handleSubmit
Mismatch(password, confirmPassword) == password # confirmPassword
MissingField(name, email, password) == name = "" \/ email = "" \/ password = ""

RegistrationScreen_handleSubmit_NoFieldCheck(name, email, password, confirmPassword, now) ==
  IF Mismatch(password, confirmPassword)
  THEN /\ error' = PasswordsDiffer
       /\ UNCHANGED <<storage, user, isAuthenticated, route, quizVars>>
  ELSE /\ login([id |-> now, name |-> name, email |-> email])
       /\ GoTo("HOME")

\* RegistrationScreen.handleSubmit
RegistrationScreen_handleSubmit(name, email, password, confirmPassword, now) ==
  IF Mismatch(password, confirmPassword)
  THEN /\ error' = PasswordsDiffer
       /\ UNCHANGED <<storage, user, isAuthenticated, route, quizVars>>
  ELSE IF MissingField(name, email, password)
  THEN /\ error' = FillAllFields
       /\ UNCHANGED <<storage, user, isAuthenticated, route, quizVars>>
  ELSE /\ login([id |-> now, name |-> name, email |-> email])
       /\ GoTo("HOME")

\* Sidebar.handleLogout
handleLogout ==
  /\ logout
  /\ GoTo("LOGIN")

----------------------------------------------------------------------------
(* Quiz Rotation Engine: BrainQuizzesScreen.tsx *)

Min(a, b) == IF a < b THEN a ELSE b
Range(seq) == {seq[i] : i \in DOMAIN seq}

\* seenIds.includes(id)
includes(seenIds, id) == BagIn(id, seenIds)
\* seenIds.push(id)
push(seenIds, id) == seenIds (+) SetToBag({id})

\* arr.sort(() => 0.5 - Math.random()).slice(0, n): the comparator is random,
\* so the sort may leave the elements in any order; the slice keeps the
\* first n of them (all of them when there are fewer)
ShuffleSlice(questions, n) ==
  LET len == Min(n, Cardinality(questions))
  IN  {batch \in [1..len -> questions] :
         \A i, j \in 1..len : i # j => batch[i] # batch[j]}

\* seenIds as getUnseenQuestions has it after its try/catch: a missing,
\* empty or unparsable item leaves []; array is FALSE for a parsed value
\* that has no includes method
seenIdsRead ==
  LET stored == storage.femmoraSeenQuizQuestions
      parsed == JSONparse(stored)
  IN  IF Truthy(stored) /\ parsed.ok
      THEN IF parsed.array THEN [array |-> TRUE, ids |-> parsed.val]
                           ELSE [array |-> FALSE, ids |-> EmptyBag]
      ELSE [array |-> TRUE, ids |-> EmptyBag]

getUnseenQuestions_NoReset ==
  LET seenIds == seenIdsRead
      unseen  == {q \in AllMockQuestionIds : ~includes(seenIds.ids, q)}
  IN  IF ~seenIds.array
      THEN [thrown |-> "TypeError", questions |-> {}, reset |-> FALSE]
      ELSE [thrown |-> "none", questions |-> unseen, reset |-> FALSE]

getUnseenQuestions_ResetLate ==
  LET seenIds == seenIdsRead
      unseen  == {q \in AllMockQuestionIds : ~includes(seenIds.ids, q)}
  IN  IF ~seenIds.array
      THEN [thrown |-> "TypeError", questions |-> {}, reset |-> FALSE]
      ELSE IF Cardinality(unseen) < QUESTIONS_PER_BATCH - 1
      THEN [thrown |-> "none", questions |-> AllMockQuestionIds, reset |-> TRUE]
      ELSE [thrown |-> "none", questions |-> unseen, reset |-> FALSE]

\* getUnseenQuestions: the questions to draw from, whether the seen record
\* is removed, and the exception that escapes (the filter calls
\* seenIds.includes outside the try block)
getUnseenQuestions ==
  LET seenIds == seenIdsRead
      unseen  == {q \in AllMockQuestionIds : ~includes(seenIds.ids, q)}
  IN  IF ~seenIds.array
      THEN [thrown |-> "TypeError", questions |-> {}, reset |-> FALSE]
      ELSE IF Cardinality(unseen) < QUESTIONS_PER_BATCH
      THEN \* not enough unseen questions, reset the seen list
           [thrown |-> "none", questions |-> AllMockQuestionIds, reset |-> TRUE]
      ELSE [thrown |-> "none", questions |-> unseen, reset |-> FALSE]

startNewQuiz_RecordBatch ==
  LET unseenQuestions == getUnseenQuestions
  IN  IF unseenQuestions.thrown # "none"
      THEN /\ thrown' = unseenQuestions.thrown
           /\ UNCHANGED <<storage, quizVars>>
      ELSE /\ \E newBatch \in ShuffleSlice(unseenQuestions.questions, QUESTIONS_PER_BATCH) :
                /\ currentQuestions' = newBatch
                /\ storage' = setItem("femmoraSeenQuizQuestions",
                                      JSONstringify(
                                        (IF unseenQuestions.reset
                                         THEN EmptyBag ELSE seenIdsRead.ids)
                                        (+) SetToBag(Range(newBatch))))
           /\ currentQuestionIndex' = 0
           /\ score' = 0
           /\ selectedAnswer' = NoAnswer
           /\ answerStatus' = "unanswered"
           /\ quizState' = "active"
           /\ thrown' = "none"

startNewQuiz_KeepScore ==
  LET unseenQuestions == getUnseenQuestions
  IN  IF unseenQuestions.thrown # "none"
      THEN /\ thrown' = unseenQuestions.thrown
           /\ UNCHANGED <<storage, quizVars>>
      ELSE /\ storage' = IF unseenQuestions.reset
                         THEN removeItem("femmoraSeenQuizQuestions")
                         ELSE storage
           /\ \E newBatch \in ShuffleSlice(unseenQuestions.questions, QUESTIONS_PER_BATCH) :
                currentQuestions' = newBatch
           /\ currentQuestionIndex' = 0
           /\ selectedAnswer' = NoAnswer
           /\ answerStatus' = "unanswered"
           /\ quizState' = "active"
           /\ thrown' = "none"
           /\ UNCHANGED score

startNewQuiz ==
  LET unseenQuestions == getUnseenQuestions
  IN  IF unseenQuestions.thrown # "none"
      THEN /\ thrown' = unseenQuestions.thrown
           /\ UNCHANGED <<storage, quizVars>>
      ELSE /\ storage' = IF unseenQuestions.reset
                         THEN removeItem("femmoraSeenQuizQuestions")
                         ELSE storage
           /\ \E newBatch \in ShuffleSlice(unseenQuestions.questions, QUESTIONS_PER_BATCH) :
                currentQuestions' = newBatch
           /\ currentQuestionIndex' = 0
           /\ score' = 0
           /\ selectedAnswer' = NoAnswer
           /\ answerStatus' = "unanswered"
           /\ quizState' = "active"
           /\ thrown' = "none"

handleAnswerSelect_Always(option) ==
  /\ selectedAnswer' = option
  /\ thrown' = "none"
  /\ UNCHANGED <<storage, quizState, currentQuestions, currentQuestionIndex,
                 score, answerStatus>>

handleAnswerSelect(option) ==
  /\ IF answerStatus = "unanswered"
     THEN selectedAnswer' = option
     ELSE UNCHANGED selectedAnswer
  /\ thrown' = "none"
  /\ UNCHANGED <<storage, quizState, currentQuestions, currentQuestionIndex,
                 score, answerStatus>>

handleSubmitAnswer_NoGuard ==
  /\ IF selectedAnswer.isCorrect
     THEN /\ score' = score + 1
          /\ answerStatus' = "correct"
     ELSE /\ answerStatus' = "incorrect"
          /\ UNCHANGED score
  /\ thrown' = "none"
  /\ UNCHANGED <<storage, quizState, currentQuestions, currentQuestionIndex, selectedAnswer>>

handleSubmitAnswer_CountAll ==
  /\ IF selectedAnswer = NoAnswer
     THEN UNCHANGED <<score, answerStatus>>
     ELSE /\ score' = score + 1
          /\ answerStatus' = IF selectedAnswer.isCorrect THEN "correct" ELSE "incorrect"
  /\ thrown' = "none"
  /\ UNCHANGED <<storage, quizState, currentQuestions, currentQuestionIndex,
                 selectedAnswer>>

handleSubmitAnswer ==
  /\ IF selectedAnswer = NoAnswer
     THEN UNCHANGED <<score, answerStatus>>
     ELSE IF selectedAnswer.isCorrect
     THEN /\ score' = score + 1
          /\ answerStatus' = "correct"
     ELSE /\ answerStatus' = "incorrect"
          /\ UNCHANGED score
  /\ thrown' = "none"
  /\ UNCHANGED <<storage, quizState, currentQuestions, currentQuestionIndex,
                 selectedAnswer>>

\* the second half of handleNextQuestion: advance, or finish the quiz
advance_PastEnd ==
  /\ currentQuestionIndex' = currentQuestionIndex + 1
  /\ selectedAnswer' = NoAnswer
  /\ answerStatus' = "unanswered"
  /\ UNCHANGED <<quizState, currentQuestions, score>>

advance_FinishEarly ==
  IF currentQuestionIndex >= Len(currentQuestions) - 1
  THEN /\ currentQuestionIndex' = currentQuestionIndex + 1
       /\ selectedAnswer' = NoAnswer
       /\ answerStatus' = "unanswered"
       /\ UNCHANGED <<quizState, currentQuestions, score>>
  ELSE /\ quizState' = "finished"
       /\ UNCHANGED <<currentQuestions, currentQuestionIndex, score,
                      selectedAnswer, answerStatus>>

advance_KeepSelection ==
  IF currentQuestionIndex < Len(currentQuestions) - 1
  THEN /\ currentQuestionIndex' = currentQuestionIndex + 1
       /\ UNCHANGED <<quizState, currentQuestions, score, selectedAnswer, answerStatus>>
  ELSE /\ quizState' = "finished"
       /\ UNCHANGED <<currentQuestions, currentQuestionIndex, score,
                      selectedAnswer, answerStatus>>

advance ==
  IF currentQuestionIndex < Len(currentQuestions) - 1
  THEN /\ currentQuestionIndex' = currentQuestionIndex + 1
       /\ selectedAnswer' = NoAnswer
       /\ answerStatus' = "unanswered"
       /\ UNCHANGED <<quizState, currentQuestions, score>>
  ELSE /\ quizState' = "finished"
       /\ UNCHANGED <<currentQuestions, currentQuestionIndex, score,
                      selectedAnswer, answerStatus>>

handleNextQuestion_AlwaysPush ==
  LET seenIdsStr == storage.femmoraSeenQuizQuestions
      parsed     == JSONparse(seenIdsStr)
  IN  IF Truthy(seenIdsStr) /\ ~parsed.ok
      THEN thrown' = "SyntaxError" /\ UNCHANGED <<storage, quizVars>>
      ELSE IF currentQuestionIndex >= Len(currentQuestions)
      THEN thrown' = "TypeError" /\ UNCHANGED <<storage, quizVars>>
      ELSE IF Truthy(seenIdsStr) /\ ~parsed.array
      THEN thrown' = "TypeError" /\ UNCHANGED <<storage, quizVars>>
      ELSE LET seenIds == IF Truthy(seenIdsStr) THEN parsed.val ELSE EmptyBag
               currentQuestionId == currentQuestions[currentQuestionIndex + 1]
           IN  /\ storage' = setItem("femmoraSeenQuizQuestions",
                                     JSONstringify(push(seenIds, currentQuestionId)))
               /\ advance
               /\ thrown' = "none"

handleNextQuestion_NoRecord ==
  LET seenIdsStr == storage.femmoraSeenQuizQuestions
      parsed     == JSONparse(seenIdsStr)
  IN  IF Truthy(seenIdsStr) /\ ~parsed.ok
      THEN thrown' = "SyntaxError" /\ UNCHANGED <<storage, quizVars>>
      ELSE IF currentQuestionIndex >= Len(currentQuestions)
      THEN thrown' = "TypeError" /\ UNCHANGED <<storage, quizVars>>
      ELSE IF Truthy(seenIdsStr) /\ ~parsed.array
      THEN thrown' = "TypeError" /\ UNCHANGED <<storage, quizVars>>
      ELSE /\ UNCHANGED storage
           /\ advance
           /\ thrown' = "none"

\* handleNextQuestion: JSON.parse is not in a try block here, and
\* currentQuestions[currentQuestionIndex] is undefined when no batch was drawn
handleNextQuestion ==
  LET seenIdsStr == storage.femmoraSeenQuizQuestions
      parsed     == JSONparse(seenIdsStr)
  IN  IF Truthy(seenIdsStr) /\ ~parsed.ok
      THEN thrown' = "SyntaxError" /\ UNCHANGED <<storage, quizVars>>
      ELSE IF currentQuestionIndex >= Len(currentQuestions)
      THEN thrown' = "TypeError" /\ UNCHANGED <<storage, quizVars>>
      ELSE IF Truthy(seenIdsStr) /\ ~parsed.array
      THEN thrown' = "TypeError" /\ UNCHANGED <<storage, quizVars>>
      ELSE LET seenIds == IF Truthy(seenIdsStr) THEN parsed.val ELSE EmptyBag
               currentQuestionId == currentQuestions[currentQuestionIndex + 1]
           IN  /\ storage' = IF ~includes(seenIds, currentQuestionId)
                             THEN setItem("femmoraSeenQuizQuestions",
                                          JSONstringify(push(seenIds, currentQuestionId)))
                             ELSE storage
               /\ advance
               /\ thrown' = "none"

----------------------------------------------------------------------------
(* The application's steps, with the observers' bookkeeping *)

\* no translate call yet, no form submitted yet
NoCall   == [key |-> "", defaultText |-> Undefined, language |-> "", result |-> "", made |-> FALSE]
NoSubmit == [form |-> "none", name |-> "", email |-> "", password |-> "",
             confirmPassword |-> ""]
\* no login call in this step
NoLogin  == [called |-> FALSE, from |-> NoUser, userData |-> NoUser]

\* no direct call of handleSubmitAnswer in this step
NoSubmitCall == [called |-> FALSE, selected |-> NoAnswer, status |-> "unanswered"]

\* no quiz handler run in this step
NoHandlerCall == [op |-> "none", option |-> NoAnswer, state |-> "idle", score |-> 0,
                  status |-> "unanswered", question |-> 0]

\* the note of handler op run with the option given, in the current state
HandlerNote(op, option) ==
  [op |-> op, option |-> option, state |-> quizState, score |-> score,
   status |-> answerStatus,
   question |-> IF currentQuestionIndex < Len(currentQuestions)
                THEN currentQuestions[currentQuestionIndex + 1] ELSE 0]

\* a step that runs no quiz handler
\* the quiz screen is not shown after the step: the notes of the quiz in
\* progress are dropped with its state
QuizNotesDropped ==
  /\ answers' = << >>
  /\ lastDraw' = "none"
  /\ UNCHANGED <<nextCallsHere, presented, earlyRepeat, batchLog, resetLog>>

NoQuizCall ==
  /\ submitCall' = NoSubmitCall
  /\ handlerCall' = NoHandlerCall

\* a step that submits no form
NoFormStep ==
  /\ lastSubmit' = NoSubmit
  /\ loginCall' = NoLogin

Init ==
  /\ storage = [femmoraUser |-> Absent,
                femmoraLanguage |-> Absent,
                femmoraSeenQuizQuestions |-> Absent]
  /\ isAuthenticated = FALSE
  /\ user = NoUser
  /\ loading = TRUE
  /\ route = "WELCOME"
  /\ error = ""
  /\ quizState = "idle"
  /\ currentQuestions = << >>
  /\ currentQuestionIndex = 0
  /\ score = 0
  /\ selectedAnswer = NoAnswer
  /\ answerStatus = "unanswered"
  /\ thrown = "none"
  /\ lastAuthOp = "none"
  /\ lastLoginUser = NoUser
  /\ initRead = Absent
  /\ restored = FALSE
  /\ answers = << >>
  /\ lastDraw = "none"
  /\ nextCallsHere = 0
  /\ presented = {}
  /\ earlyRepeat = FALSE
  /\ batchLog = << >>
  /\ resetLog = << >>
  /\ language = Language_EN
  /\ lastTranslate = NoCall
  /\ lastSetLang = ""
  /\ lastSubmit = NoSubmit
  /\ loginCall = NoLogin
  /\ submitCall = NoSubmitCall
  /\ handlerCall = NoHandlerCall

\* the AuthProvider mount effect runs once, after the first (loading) render
AuthInit ==
  /\ loading
  /\ mountEffect
  /\ initRead' = storage.femmoraUser
  /\ restored' = TRUE
  /\ NoFormStep
  /\ UNCHANGED <<route, error, quizVars, thrown, lastAuthOp, lastLoginUser, quizHist,
                 langVars>>
  /\ NoQuizCall

\* the login form is submitted
SubmitLogin ==
  /\ Rendered = Screen("LOGIN")
  /\ \E email \in Emails, password \in Passwords :
       /\ LoginScreen_handleSubmit(email, password)
       /\ lastSubmit' = [form |-> "login", name |-> "", email |-> email,
                         password |-> password, confirmPassword |-> ""]
       /\ IF DemoCredentials(email, password)
          THEN /\ lastAuthOp' = "login"
               /\ lastLoginUser' = DemoUser
               /\ restored' = FALSE
               /\ loginCall' = [called |-> TRUE, from |-> user, userData |-> DemoUser]
          ELSE /\ loginCall' = NoLogin
               /\ UNCHANGED <<lastAuthOp, lastLoginUser, restored>>
  /\ UNCHANGED <<loading, thrown, initRead, langVars>>
  /\ QuizNotesDropped
  /\ NoQuizCall

\* the registration form is submitted
SubmitRegistration ==
  /\ Rendered = Screen("REGISTER")
  /\ \E name \in Names, email \in Emails, now \in Timestamps,
        password \in Passwords, confirmPassword \in Passwords :
       /\ RegistrationScreen_handleSubmit(name, email, password, confirmPassword, now)
       /\ lastSubmit' = [form |-> "register", name |-> name, email |-> email,
                         password |-> password, confirmPassword |-> confirmPassword]
       /\ IF ~Mismatch(password, confirmPassword) /\ ~MissingField(name, email, password)
          THEN /\ lastAuthOp' = "login"
               /\ lastLoginUser' = [id |-> now, name |-> name, email |-> email]
               /\ restored' = FALSE
               /\ loginCall' = [called |-> TRUE, from |-> user,
                                userData |-> [id |-> now, name |-> name, email |-> email]]
          ELSE /\ loginCall' = NoLogin
               /\ UNCHANGED <<lastAuthOp, lastLoginUser, restored>>
  /\ UNCHANGED <<loading, thrown, initRead, langVars>>
  /\ QuizNotesDropped
  /\ NoQuizCall

\* the sidebar's logout button: the sidebar is part of MainLayout, which
\* every protected screen is wrapped in
ClickLogout ==
  /\ Rendered.kind = "screen"
  /\ route \in ProtectedRoutes
  /\ handleLogout
  /\ lastAuthOp' = "logout"
  /\ restored' = FALSE
  /\ NoFormStep
  /\ UNCHANGED <<loading, thrown, lastLoginUser, initRead,
                 langVars>>
  /\ QuizNotesDropped
  /\ NoQuizCall

\* the user follows a link or edits the location
UserNavigate ==
  /\ \E r \in Locations : r # route /\ GoTo(r)
  /\ NoFormStep
  /\ UNCHANGED <<storage, authVars, thrown, authHist,
                 langVars>>
  /\ QuizNotesDropped
  /\ NoQuizCall

\* a rendered <Navigate to=... replace /> changes the location
RedirectEffect ==
  /\ Rendered.kind = "navigate"
  /\ GoTo(Rendered.at)
  /\ NoFormStep
  /\ UNCHANGED <<storage, authVars, thrown, authHist,
                 langVars>>
  /\ QuizNotesDropped
  /\ NoQuizCall

\* the page is reloaded: component state starts over, the location and
\* localStorage stay
Reload ==
  /\ ~loading
  /\ isAuthenticated' = FALSE
  /\ user' = NoUser
  /\ loading' = TRUE
  /\ error' = ""
  /\ QuizUnmounted
  /\ restored' = FALSE
  /\ language' = LanguageProvider_initialState
  /\ NoFormStep
  /\ UNCHANGED <<storage, route, thrown, lastAuthOp, lastLoginUser, initRead, quizHist,
                 lastTranslate, lastSetLang>>
  /\ NoQuizCall

\* the environment damages the persisted session record: the text is cut
\* short (no prefix of an object's JSON text is JSON) or emptied
CorruptSession ==
  /\ storage.femmoraUser.kind = "json"
  /\ \E damaged \in {Garbage, EmptyString} :
       storage' = [storage EXCEPT !.femmoraUser = damaged]
  /\ NoFormStep
  /\ UNCHANGED <<authVars, route, error, quizVars, thrown, authHist, quizHist,
                 langVars>>
  /\ NoQuizCall

NextAuth ==
  \/ AuthInit
  \/ SubmitLogin
  \/ SubmitRegistration
  \/ ClickLogout
  \/ UserNavigate
  \/ RedirectEffect
  \/ Reload

SpecAuth == Init /\ [][NextAuth]_vars

NextAuthCorrupt == NextAuth \/ CorruptSession

SpecAuthCorrupt == Init /\ [][NextAuthCorrupt]_vars

----------------------------------------------------------------------------
(* The quiz screen's steps *)

\* a signed-in user has opened the quiz screen
InitQuiz ==
  /\ storage = [femmoraUser |-> JSONstringify(DemoUser),
                femmoraLanguage |-> Absent,
                femmoraSeenQuizQuestions |-> Absent]
  /\ isAuthenticated = TRUE
  /\ user = DemoUser
  /\ loading = FALSE
  /\ route = "BRAIN_QUIZZES"
  /\ error = ""
  /\ quizState = "idle"
  /\ currentQuestions = << >>
  /\ currentQuestionIndex = 0
  /\ score = 0
  /\ selectedAnswer = NoAnswer
  /\ answerStatus = "unanswered"
  /\ thrown = "none"
  /\ lastAuthOp = "login"
  /\ lastLoginUser = DemoUser
  /\ initRead = Absent
  /\ restored = FALSE
  /\ answers = << >>
  /\ lastDraw = "none"
  /\ nextCallsHere = 0
  /\ presented = {}
  /\ earlyRepeat = FALSE
  /\ batchLog = << >>
  /\ resetLog = << >>
  /\ language = Language_EN
  /\ lastTranslate = NoCall
  /\ lastSetLang = ""
  /\ lastSubmit = NoSubmit
  /\ loginCall = NoLogin
  /\ submitCall = NoSubmitCall
  /\ handlerCall = NoHandlerCall

QuizScreenShown == Rendered = Screen("BRAIN_QUIZZES")

\* the observer's notes of a startNewQuiz call
StartNotes ==
  IF thrown' = "none"
  THEN /\ answers' = << >>
       /\ lastDraw' = IF getUnseenQuestions.reset THEN "reset" ELSE "kept"
  ELSE UNCHANGED <<answers, lastDraw>>

sessionFrame == <<authVars, route, error, authHist, langVars, formNotes>>
quizFrame    == <<sessionFrame, submitCall>>

\* the Start Quiz / Play Again button (idle and finished views)
ClickStart ==
  /\ QuizScreenShown
  /\ quizState \in {"idle", "finished"}
  /\ startNewQuiz
  /\ StartNotes
  /\ handlerCall' = HandlerNote("start", NoAnswer)
  /\ UNCHANGED quizFrame

\* an option button (enabled while the question is unanswered)
ClickOption ==
  /\ QuizScreenShown
  /\ quizState = "active"
  /\ answerStatus = "unanswered"
  /\ \E option \in Options(currentQuestions[currentQuestionIndex + 1]) :
       /\ handleAnswerSelect(option)
       /\ handlerCall' = HandlerNote("select", option)
  /\ UNCHANGED <<quizFrame, answers, lastDraw>>

\* the Submit button (shown while unanswered, enabled once an option is selected)
ClickSubmit ==
  /\ QuizScreenShown
  /\ quizState = "active"
  /\ answerStatus = "unanswered"
  /\ selectedAnswer # NoAnswer
  /\ handleSubmitAnswer
  /\ handlerCall' = HandlerNote("submit", NoAnswer)
  /\ answers' = Append(answers, selectedAnswer)
  /\ UNCHANGED <<quizFrame, lastDraw>>

ClickNext_AlwaysOffered ==
  /\ QuizScreenShown
  /\ quizState = "active"
  /\ handleNextQuestion
  /\ handlerCall' = HandlerNote("next", NoAnswer)
  /\ UNCHANGED <<quizFrame, answers, lastDraw>>

\* the Next Question button (shown once the question is answered)
ClickNext ==
  /\ QuizScreenShown
  /\ quizState = "active"
  /\ answerStatus # "unanswered"
  /\ handleNextQuestion
  /\ handlerCall' = HandlerNote("next", NoAnswer)
  /\ UNCHANGED <<quizFrame, answers, lastDraw>>

\* the quiz screen is unmounted and mounted again: the user leaves the
\* screen and comes back, or reloads the page and the session is restored
RemountQuiz ==
  /\ QuizScreenShown
  /\ quizState # "idle"
  /\ QuizUnmounted
  /\ answers' = << >>
  /\ lastDraw' = "none"
  /\ handlerCall' = HandlerNote("mount", NoAnswer)
  /\ UNCHANGED <<storage, sessionFrame, thrown>>

rotationNotes == <<nextCallsHere, presented, earlyRepeat>>
scenarioLog   == <<batchLog, resetLog>>

Start    == ClickStart  /\ UNCHANGED <<rotationNotes, scenarioLog>>
Choose   == ClickOption /\ UNCHANGED <<rotationNotes, scenarioLog>>
Submit   == ClickSubmit /\ UNCHANGED <<rotationNotes, scenarioLog>>
Advance  == ClickNext   /\ UNCHANGED <<rotationNotes, scenarioLog>>
Remount  == RemountQuiz /\ UNCHANGED <<rotationNotes, scenarioLog, submitCall>>

NextQuiz == Start \/ Choose \/ Submit \/ Advance \/ Remount

\* the quiz screen driven through its buttons
SpecQuiz == InitQuiz /\ [][NextQuiz]_vars

\* the handlers called directly, in any order and in any state of the
\* mounted screen
AllOptions == UNION {Options(q) : q \in AllMockQuestionIds}

CallStart ==
  /\ QuizScreenShown
  /\ startNewQuiz
  /\ StartNotes
  /\ nextCallsHere' = IF thrown' = "none" THEN 0 ELSE nextCallsHere
  /\ submitCall' = NoSubmitCall
  /\ handlerCall' = HandlerNote("start", NoAnswer)
  /\ UNCHANGED <<sessionFrame, presented, earlyRepeat, scenarioLog>>

CallSelect ==
  /\ QuizScreenShown
  /\ \E option \in AllOptions :
       /\ handleAnswerSelect(option)
       /\ handlerCall' = HandlerNote("select", option)
  /\ submitCall' = NoSubmitCall
  /\ UNCHANGED <<sessionFrame, quizHist>>

CallSubmit ==
  /\ QuizScreenShown
  /\ score < MaxScore
  /\ handleSubmitAnswer
  /\ submitCall' = [called |-> TRUE, selected |-> selectedAnswer, status |-> answerStatus]
  /\ handlerCall' = HandlerNote("submit", NoAnswer)
  /\ UNCHANGED <<sessionFrame, quizHist>>

CallNext ==
  /\ QuizScreenShown
  /\ handleNextQuestion
  /\ nextCallsHere' = IF thrown' # "none" THEN nextCallsHere
                      ELSE IF currentQuestionIndex' # currentQuestionIndex THEN 0
                      ELSE Min(nextCallsHere + 1, 2)
  /\ submitCall' = NoSubmitCall
  /\ handlerCall' = HandlerNote("next", NoAnswer)
  /\ UNCHANGED <<sessionFrame, answers, lastDraw, presented, earlyRepeat, scenarioLog>>

CallRemount ==
  /\ RemountQuiz
  /\ nextCallsHere' = 0
  /\ submitCall' = NoSubmitCall
  /\ UNCHANGED <<presented, earlyRepeat, scenarioLog>>

NextHandlers == CallStart \/ CallSelect \/ CallSubmit \/ CallNext \/ CallRemount

SpecHandlers == InitQuiz /\ [][NextHandlers]_vars

\* the observer's note of question q being put before the user
Present(q) ==
  IF earlyRepeat
  THEN UNCHANGED <<presented, earlyRepeat>>
  ELSE IF presented = AllMockQuestionIds
  THEN presented' = {q} /\ UNCHANGED earlyRepeat
  ELSE IF q \in presented
  THEN earlyRepeat' = TRUE /\ UNCHANGED presented
  ELSE presented' = presented \cup {q} /\ UNCHANGED earlyRepeat

\* the buttons again, with a note of every question shown
ShowStart ==
  /\ ClickStart
  /\ IF thrown' = "none"
     THEN Present(currentQuestions'[1])
     ELSE UNCHANGED <<presented, earlyRepeat>>
  /\ UNCHANGED <<nextCallsHere, scenarioLog>>

ShowNext ==
  /\ ClickNext
  /\ IF thrown' = "none" /\ currentQuestionIndex' # currentQuestionIndex
     THEN Present(currentQuestions[currentQuestionIndex' + 1])
     ELSE UNCHANGED <<presented, earlyRepeat>>
  /\ UNCHANGED <<nextCallsHere, scenarioLog>>

NextRotation == ShowStart \/ Choose \/ Submit \/ ShowNext \/ Remount

SpecRotation == InitQuiz /\ [][NextRotation]_vars

\* the number of whole batches in the pool
FullBatches == PoolSize \div QUESTIONS_PER_BATCH

\* quizzes played to the end one after the other, from no seen record, with
\* a log of the batches; the log stops after FullBatches + 1 batches
LoggedStart ==
  /\ Len(batchLog) <= FullBatches
  /\ ClickStart
  /\ batchLog' = Append(batchLog, Range(currentQuestions'))
  /\ resetLog' = Append(resetLog, lastDraw' = "reset")
  /\ UNCHANGED rotationNotes

NextScenario == LoggedStart \/ Choose \/ Submit \/ Advance

SpecScenario == InitQuiz /\ [][NextScenario]_vars

\* the environment damages the persisted seen record: not JSON, JSON of
\* something that is no array, or the empty string
CorruptSeen ==
  /\ \E damaged \in {Garbage, JsonNonArray, EmptyString} :
       /\ storage.femmoraSeenQuizQuestions # damaged
       /\ storage' = [storage EXCEPT !.femmoraSeenQuizQuestions = damaged]
  /\ UNCHANGED <<authVars, route, error, quizVars, thrown, authHist, quizHist,
                 langVars, formNotes>>
  /\ NoQuizCall

NextQuizCorrupt == NextQuiz \/ CorruptSeen

SpecQuizCorrupt == InitQuiz /\ [][NextQuizCorrupt]_vars

----------------------------------------------------------------------------
(* The preference store's steps *)

\* a rendered screen calls t(key, defaultText)
CallTranslate ==
  /\ Rendered.kind = "screen"
  /\ \E key \in TranslationKeys, defaultText \in DefaultTexts :
       lastTranslate' = [key |-> key, defaultText |-> defaultText,
                         language |-> language,
                         result |-> translate(key, defaultText), made |-> TRUE]
  /\ UNCHANGED <<storage, authVars, route, error, quizVars, thrown, authHist, quizHist,
                 language, lastSetLang>>
  /\ NoFormStep
  /\ NoQuizCall

\* the language select of the sidebar and of the settings screen, both on
\* protected screens; the observer forgets the translate call made before
SelectLanguage ==
  /\ Rendered.kind = "screen"
  /\ route \in ProtectedRoutes
  /\ \E lang \in Languages :
       /\ setLanguage(lang)
       /\ lastSetLang' = lang
  /\ lastTranslate' = NoCall
  /\ UNCHANGED <<authVars, route, error, quizVars, thrown, authHist, quizHist>>
  /\ NoFormStep
  /\ NoQuizCall

\* the persisted language is not the program's own: a value another
\* version of the application wrote, or an emptied item
UnsupportedLanguages == {"fr"}

TamperLanguage ==
  /\ \E foreign \in {Text(l) : l \in UnsupportedLanguages} \cup {EmptyString} :
       /\ storage.femmoraLanguage # foreign
       /\ storage' = [storage EXCEPT !.femmoraLanguage = foreign]
  /\ UNCHANGED <<authVars, route, error, quizVars, thrown, authHist, quizHist,
                 langVars, formNotes>>
  /\ NoQuizCall

NextLanguage == CallTranslate \/ SelectLanguage \/ Reload \/ AuthInit

\* a signed-in user on a protected screen, the pages reloaded at will
SpecLanguage == InitQuiz /\ [][NextLanguage]_vars

NextLanguageCorrupt == NextLanguage \/ TamperLanguage

SpecLanguageCorrupt == InitQuiz /\ [][NextLanguageCorrupt]_vars

----------------------------------------------------------------------------
(* Quiz Rotation Engine: properties *)

\* the ids of the persisted Seen-Question Record, as a bag
SeenRecord ==
  IF storage.femmoraSeenQuizQuestions.kind = "json"
  THEN storage.femmoraSeenQuizQuestions.val
  ELSE EmptyBag

\* C4: a started quiz holds min(QUESTIONS_PER_BATCH, pool size) questions,
\* pairwise distinct, all from the pool.
C4_FullDistinctBatch ==
  quizState \in {"active", "finished"} =>
     /\ Len(currentQuestions) = Min(QUESTIONS_PER_BATCH, PoolSize)
     /\ \A i, j \in DOMAIN currentQuestions :
           i # j => currentQuestions[i] # currentQuestions[j]
     /\ Range(currentQuestions) \subseteq AllMockQuestionIds

\* a quiz started when fewer than a batch of questions was unseen
C4_Witness ==
  /\ quizState = "active"
  /\ lastDraw = "reset"
  /\ Len(currentQuestions) = QUESTIONS_PER_BATCH

\* C5: at the finished state of a quiz in which every question was answered,
\* score is the number of submitted options with isCorrect = true.
C5_ScoreCountsCorrect ==
  quizState = "finished" =>
     /\ Len(answers) = Len(currentQuestions)
     /\ score = Cardinality({i \in DOMAIN answers : answers[i].isCorrect})

\* a finished quiz with one right and one wrong answer at least
C5_Witness ==
  /\ quizState = "finished"
  /\ \E i, j \in DOMAIN answers : answers[i].isCorrect /\ ~answers[j].isCorrect
  /\ score > 0

\* C6: no id occurs twice in the persisted Seen-Question Record, however
\* often handleNextQuestion is called for the same question.
C6_NoDuplicateSeenIds ==
  \A q \in AllMockQuestionIds : CopiesIn(q, SeenRecord) <= 1

\* handleNextQuestion was called again for the last question of a batch
C6_Witness ==
  /\ nextCallsHere = 2
  /\ quizState = "finished"
  /\ CopiesIn(currentQuestions[currentQuestionIndex + 1], SeenRecord) = 1

\* the pool questions whose id is not in the persisted record
UnseenIds == {q \in AllMockQuestionIds : ~BagIn(q, SeenRecord)}

\* C7: a step that starts a quiz removes the seen record and draws from the
\* pool when fewer than QUESTIONS_PER_BATCH questions were unseen before it;
\* otherwise it leaves the record as it was and draws unseen questions only.
C7_ResetPolicy ==
  [][ (quizState # "active" /\ quizState' = "active") =>
        IF Cardinality(UnseenIds) < QUESTIONS_PER_BATCH
        THEN /\ storage'.femmoraSeenQuizQuestions = Absent
             /\ Range(currentQuestions') \subseteq AllMockQuestionIds
        ELSE /\ storage'.femmoraSeenQuizQuestions = storage.femmoraSeenQuizQuestions
             /\ Range(currentQuestions') \subseteq UnseenIds ]_vars

\* a quiz was just drawn by a draw that removed the seen record
C7_Witness ==
  /\ lastDraw = "reset"
  /\ quizState = "active" /\ currentQuestionIndex = 0
  /\ storage.femmoraSeenQuizQuestions = Absent

\* C8: in a run of quizzes played to the end from no seen record, every
\* batch holds QUESTIONS_PER_BATCH ids of the pool; the first FullBatches
\* batches are drawn without a reset and share no question, and when they
\* are done their ids are the record; the draw after them resets the record.
C8_Scenario ==
  /\ \A i \in DOMAIN batchLog :
        /\ Cardinality(batchLog[i]) = QUESTIONS_PER_BATCH
        /\ batchLog[i] \subseteq AllMockQuestionIds
        /\ resetLog[i] <=> (i = FullBatches + 1)
  /\ \A i, j \in DOMAIN batchLog :
        (i < j /\ j <= FullBatches) => batchLog[i] \cap batchLog[j] = {}
  /\ (Len(batchLog) = FullBatches /\ quizState = "finished") =>
        /\ BagToSet(SeenRecord) = UNION {batchLog[i] : i \in DOMAIN batchLog}
        /\ BagCardinality(SeenRecord) = FullBatches * QUESTIONS_PER_BATCH
  /\ (Len(batchLog) = FullBatches + 1 /\ currentQuestionIndex = 0
        /\ quizState = "active") =>
        storage.femmoraSeenQuizQuestions = Absent

\* the draw after FullBatches completed quizzes has reset the record and
\* holds a question of the first batch again
C8_Witness ==
  /\ Len(batchLog) = FullBatches + 1
  /\ resetLog[FullBatches + 1]
  /\ batchLog[FullBatches + 1] \cap batchLog[1] # {}
  /\ storage.femmoraSeenQuizQuestions = Absent

\* C9: no question is shown a second time before every question of the
\* pool has been shown.
C9_NoEarlyRepeat == ~earlyRepeat

\* C10: no quiz handler lets an exception escape, whatever the state of the
\* persisted seen record.
C10_NeverFails == thrown = "none"

----------------------------------------------------------------------------
(* Session Store: properties *)

\* C1: once the store has re-initialised after a login(u), with no login or
\* logout since, it is authenticated as u exactly when the session record the
\* mount effect read parsed.
C1_LoginThenRestart ==
  (restored /\ lastAuthOp = "login") =>
     ((isAuthenticated /\ user = lastLoginUser) <=> JSONparse(initRead).ok)

\* the record was damaged after the login, and the restart found it so
C1_Witness ==
  /\ restored /\ lastAuthOp = "login"
  /\ initRead = Garbage
  /\ ~isAuthenticated

\* C2: once the store has re-initialised after a logout, with no login since,
\* it is unauthenticated with no user.
C2_LogoutThenRestart ==
  (restored /\ lastAuthOp = "logout") => (~isAuthenticated /\ user = NoUser)

C2_Witness ==
  /\ restored /\ lastAuthOp = "logout"
  /\ lastLoginUser # NoUser
  /\ ~isAuthenticated

\* C3: whenever the router is rendered, every protected route renders the
\* redirect to the login route if unauthenticated, and its screen only if
\* authenticated.
C3_ProtectedGate ==
  ~loading =>
     \A r \in ProtectedRoutes :
        /\ ~isAuthenticated => RouteElement(r) = Navigate("LOGIN")
        /\ RouteElement(r) = Screen(r) => isAuthenticated

\* an unauthenticated visit to the quiz route, before the redirect acts
C3_Witness ==
  /\ ~loading /\ ~isAuthenticated /\ route = "BRAIN_QUIZZES"
  /\ Rendered = Navigate("LOGIN")

----------------------------------------------------------------------------
(* Preference Store: properties *)

\* C11 as stated: translate never returns an empty value, whatever the key
\* (the empty key included), the defaultText and the current language.
C11_NeverEmpty ==
  lastTranslate.made => lastTranslate.result # ""

\* C11, amended: for every key that is not the empty string translate
\* returns a non-empty string, whatever the defaultText (left out, empty,
\* non-empty) and the current language (supported or not); for the empty
\* key it returns the defaultText when that is non-empty and the empty
\* string otherwise.
C11_NonEmptyForNonEmptyKey ==
  lastTranslate.made =>
    /\ lastTranslate.key # "" => lastTranslate.result # ""
    /\ lastTranslate.key = "" =>
          lastTranslate.result =
            IF lastTranslate.defaultText \in {Undefined, <<"">>}
            THEN ""
            ELSE lastTranslate.defaultText[1]

C11_Witness ==
  /\ lastTranslate.made
  /\ lastTranslate.key = "noSuchKey"
  /\ lastTranslate.defaultText = <<"">>
  /\ lastTranslate.language \notin Languages
  /\ lastTranslate.result = "noSuchKey"

\* the table has a text for the key in the language
HasEntry(key, lang) == key \in DOMAIN UI_TEXT /\ lang \in DOMAIN UI_TEXT[key]

\* C12 as stated: the table's text for (key, current language) when there
\* is one; otherwise the defaultText when one is given; otherwise the key.
C12_GivenDefaultWins ==
  lastTranslate.made =>
    lastTranslate.result =
      IF HasEntry(lastTranslate.key, lastTranslate.language)
      THEN UI_TEXT[lastTranslate.key][lastTranslate.language]
      ELSE IF lastTranslate.defaultText # Undefined
      THEN lastTranslate.defaultText[1]
      ELSE lastTranslate.key

\* what a translate call returns in language lang, by C12 as amended
Resolved(key, defaultText, lang) ==
  IF HasEntry(key, lang)
  THEN UI_TEXT[key][lang]
  ELSE IF defaultText # Undefined /\ defaultText # <<"">>
  THEN defaultText[1]
  ELSE key

\* C12, amended: translate returns the table's text for (key, current
\* language) when there is one; otherwise the defaultText when a non-empty
\* one is given; otherwise (no defaultText, or an empty one) the raw key.
\* A key without a text for the language and a key the table does not have
\* both take the fallback path.
C12_ResolutionOrder ==
  lastTranslate.made =>
    lastTranslate.result =
      Resolved(lastTranslate.key, lastTranslate.defaultText, lastTranslate.language)

C12_Witness ==
  /\ lastTranslate.made
  /\ lastTranslate.key = "startQuiz"
  /\ lastTranslate.language = Language_HI
  /\ lastTranslate.defaultText = <<"Fallback">>
  /\ lastTranslate.result = "Fallback"

\* C13: the current language is one of EN, HI, TA in every reachable
\* state: at initialisation a persisted language that is not one of them,
\* like an absent one, gives EN.
C13_LanguageSupported ==
  language \in Languages

\* C14: after setLanguage(lang) the persisted language is lang and equals
\* the selection in memory, before and after any restart, and a translate
\* call made after it, restart or no restart, resolves against lang.
C14_SelectionPersists ==
  lastSetLang # "" =>
    /\ language = lastSetLang
    /\ storage.femmoraLanguage = Text(lastSetLang)
    /\ lastTranslate.made =>
          lastTranslate.result =
            Resolved(lastTranslate.key, lastTranslate.defaultText, lastSetLang)

\* after setLanguage(TA) and a restart, "login" is shown in Tamil
C14_Witness ==
  /\ lastSetLang = Language_TA
  /\ restored
  /\ lastTranslate.made
  /\ lastTranslate.key = "login"
  /\ lastTranslate.result = "Login (ta)"

----------------------------------------------------------------------------
(* Session Store and auth forms: further properties *)

\* C15: when the mount effect finds a persisted record that does not parse,
\* it removes the record and initialisation completes (loading is false)
\* with isAuthenticated false and user null; the parse error is caught, so
\* the effect runs to its end.  Stated of every state from that mount
\* effect until the next login or logout.
C15_CorruptRecordRemoved ==
  (restored /\ Truthy(initRead) /\ ~JSONparse(initRead).ok) =>
    /\ storage.femmoraUser = Absent
    /\ ~isAuthenticated
    /\ user = NoUser
    /\ ~loading

\* a record written by login, damaged, then met by the mount effect
C15_Witness ==
  /\ restored
  /\ initRead = Garbage
  /\ lastAuthOp = "login"
  /\ storage.femmoraUser = Absent
  /\ ~loading

\* C16: whatever the state login(u) is called in, signed in as somebody
\* else or as u included, it ends with isAuthenticated true, user u and the
\* persisted record u: a second login(u) changes nothing, and login(u2)
\* after login(u1) leaves u2 alone.
C16_LoginOverwrites ==
  loginCall.called =>
    /\ isAuthenticated
    /\ user = loginCall.userData
    /\ storage.femmoraUser = JSONstringify(loginCall.userData)

\* login(u2) called while signed in as u1
C16_Witness ==
  /\ loginCall.called
  /\ loginCall.from # NoUser
  /\ loginCall.from # loginCall.userData
  /\ user = loginCall.userData

\* the registration form as submitted fails validation
InvalidRegistration(form) ==
  \/ form.password # form.confirmPassword
  \/ form.name = ""
  \/ form.email = ""
  \/ form.password = ""

\* C17: a registration submitted with a password that differs from its
\* confirmation, or with an empty name, email or password, shows an error
\* and stops there: no login call, isAuthenticated, user and the persisted
\* record as before, no navigation.
C17_InvalidRegistrationAborted ==
  [][(lastSubmit'.form = "register" /\ InvalidRegistration(lastSubmit')) =>
       /\ error' \in {PasswordsDiffer, FillAllFields}
       /\ ~loginCall'.called
       /\ isAuthenticated' = isAuthenticated
       /\ user' = user
       /\ storage' = storage
       /\ route' = route]_vars

C17_Witness ==
  /\ lastSubmit.form = "register"
  /\ lastSubmit.name # ""
  /\ lastSubmit.email # ""
  /\ lastSubmit.password # ""
  /\ lastSubmit.password # lastSubmit.confirmPassword
  /\ error = PasswordsDiffer
  /\ route = "REGISTER"
  /\ ~isAuthenticated

\* C18: the login form signs in exactly when the pair is user@example.com /
\* password: then login(demo user) and navigation home; any other pair
\* shows an error and leaves isAuthenticated, user and the persisted record
\* as they were.
C18_OnlyDemoCredentials ==
  [][lastSubmit'.form = "login" =>
       IF lastSubmit'.email = "user@example.com" /\ lastSubmit'.password = "password"
       THEN /\ isAuthenticated'
            /\ user' = DemoUser
            /\ storage'.femmoraUser = JSONstringify(DemoUser)
            /\ route' = "HOME"
       ELSE /\ error' = InvalidLogin
            /\ isAuthenticated' = isAuthenticated
            /\ user' = user
            /\ storage' = storage
            /\ route' = route]_vars

\* the demo email with another password is turned away
C18_Witness ==
  /\ lastSubmit.form = "login"
  /\ lastSubmit.email = "user@example.com"
  /\ lastSubmit.password = "secret"
  /\ error = InvalidLogin
  /\ ~isAuthenticated
  /\ storage.femmoraUser = Absent

----------------------------------------------------------------------------
(* Quiz Rotation Engine: the submit handler *)

\* C19: handleSubmitAnswer called with no selected answer does nothing:
\* answerStatus is and stays unanswered; score, currentQuestionIndex, the
\* quiz state, the batch, the selection and the seen record are unchanged.
C19_SubmitWithoutSelection ==
  [][(submitCall'.called /\ selectedAnswer = NoAnswer) =>
       /\ answerStatus = "unanswered"
       /\ answerStatus' = "unanswered"
       /\ UNCHANGED <<score, currentQuestionIndex, quizState, currentQuestions,
                      selectedAnswer, storage>>]_vars

\* the call made on a question of a running quiz before any option is chosen
C19_Witness ==
  /\ submitCall.called
  /\ submitCall.selected = NoAnswer
  /\ quizState = "active"
  /\ answerStatus = "unanswered"
  /\ selectedAnswer = NoAnswer

----------------------------------------------------------------------------
(* Quiz Rotation Engine: the handlers one by one *)

\* C21: handleAnswerSelect(option) makes option the selection while
\* answerStatus is unanswered and changes nothing (selection, status, score)
\* once it is correct or incorrect; so as long as a question counts as
\* answered, the selected option is the one the status was computed from.
C21_SelectOnlyWhileUnanswered ==
  /\ [][handlerCall'.op = "select" =>
          /\ UNCHANGED <<answerStatus, score, quizState, currentQuestions,
                         currentQuestionIndex, storage>>
          /\ selectedAnswer' = IF answerStatus = "unanswered"
                               THEN handlerCall'.option
                               ELSE selectedAnswer]_vars
  /\ [](answerStatus # "unanswered" =>
          /\ selectedAnswer # NoAnswer
          /\ selectedAnswer.isCorrect <=> answerStatus = "correct")

\* another option is chosen after the answer was submitted, to no effect
C21_Witness ==
  /\ handlerCall.op = "select"
  /\ handlerCall.status = "correct"
  /\ handlerCall.option # selectedAnswer
  /\ selectedAnswer.isCorrect
  /\ answerStatus = "correct"

\* C22: handleNextQuestion, called while there is a current question, has
\* the id of that question in the persisted record afterwards (added if it
\* was not there) and leaves score and the batch alone; unless the question
\* is the last of the batch, currentQuestionIndex grows by 1 and selection
\* and answerStatus are reset; if it is the last, the quiz state becomes
\* finished and currentQuestionIndex stays.  At finished, every id of the
\* batch is in the record.
C22_NextRecordsThenAdvances ==
  /\ [][(handlerCall'.op = "next" /\ quizState # "idle") =>
          LET q == currentQuestions[currentQuestionIndex + 1]
          IN  /\ thrown' = "none"
              /\ SeenRecord' = IF BagIn(q, SeenRecord)
                               THEN SeenRecord
                               ELSE SeenRecord (+) SetToBag({q})
              /\ UNCHANGED <<score, currentQuestions>>
              /\ IF currentQuestionIndex < Len(currentQuestions) - 1
                 THEN /\ currentQuestionIndex' = currentQuestionIndex + 1
                      /\ selectedAnswer' = NoAnswer
                      /\ answerStatus' = "unanswered"
                      /\ quizState' = quizState
                 ELSE /\ quizState' = "finished"
                      /\ currentQuestionIndex' = currentQuestionIndex]_vars
  /\ [](quizState = "finished" =>
          \A i \in DOMAIN currentQuestions : BagIn(currentQuestions[i], SeenRecord))

\* the step from the last question of a batch to the finished quiz
C22_Witness ==
  /\ handlerCall.op = "next"
  /\ handlerCall.state = "active"
  /\ quizState = "finished"
  /\ currentQuestionIndex = QUESTIONS_PER_BATCH - 1
  /\ \A i \in DOMAIN currentQuestions : BagIn(currentQuestions[i], SeenRecord)

\* C23: while the quiz screen stays mounted (leaving it discards the quiz
\* session, and the screen mounted next starts a new one at idle), the quiz
\* state changes only from idle to active and from finished to active, by
\* startNewQuiz, and from active to finished, by handleNextQuestion on the
\* last question of the batch; so idle is not entered again, and at
\* finished handleNextQuestion has recorded every question of the batch.
C23_QuizStateMachine ==
  /\ [][(handlerCall'.op # "mount" /\ quizState' # quizState) =>
          \/ /\ quizState \in {"idle", "finished"}
             /\ quizState' = "active"
             /\ handlerCall'.op = "start"
          \/ /\ quizState = "active"
             /\ quizState' = "finished"
             /\ handlerCall'.op = "next"
             /\ currentQuestionIndex = Len(currentQuestions) - 1]_vars
  /\ [](quizState = "finished" =>
          /\ currentQuestionIndex = Len(currentQuestions) - 1
          /\ Range(currentQuestions) \subseteq {q \in AllMockQuestionIds : BagIn(q, SeenRecord)})

\* a finished quiz is played again
C23_Witness ==
  /\ handlerCall.op = "start"
  /\ handlerCall.state = "finished"
  /\ quizState = "active"
  /\ currentQuestionIndex = 0

\* C24: startNewQuiz, whatever the quiz state, the score, the selection and
\* the status it is called with, ends with currentQuestionIndex 0, score 0,
\* no selection, answerStatus unanswered and the quiz state active.
C24_StartResetsSession ==
  [][handlerCall'.op = "start" =>
       /\ thrown' = "none"
       /\ currentQuestionIndex' = 0
       /\ score' = 0
       /\ selectedAnswer' = NoAnswer
       /\ answerStatus' = "unanswered"
       /\ quizState' = "active"]_vars

\* a quiz finished with a score, its last answer still selected, is replayed
C24_Witness ==
  /\ handlerCall.op = "start"
  /\ handlerCall.state = "finished"
  /\ handlerCall.score > 0
  /\ handlerCall.status # "unanswered"
  /\ score = 0
  /\ selectedAnswer = NoAnswer
  /\ quizState = "active"

----------------------------------------------------------------------------
(* Session Store: invariants *)

\* C25: with the storage written by the program only, in every state in
\* which the store is initialised (a restart is over when the mount effect
\* has run and loading is false), isAuthenticated is true exactly when user
\* is not null and exactly when a session record is persisted, and then the
\* persisted record is the user in memory.
C25_ThreeFactsAgree ==
  ~loading =>
    /\ isAuthenticated <=> user # NoUser
    /\ isAuthenticated <=> storage.femmoraUser # Absent
    /\ isAuthenticated => storage.femmoraUser = JSONstringify(user)

\* a registered user, restored by a restart
C25_Witness ==
  /\ ~loading
  /\ restored
  /\ isAuthenticated
  /\ user \notin {NoUser, DemoUser}
  /\ storage.femmoraUser = JSONstringify(user)

\* C26: while loading is true the loading view is rendered in place of the
\* router, so no route element, public or protected, is rendered and
\* ProtectedRoute does not see the initial isAuthenticated = false; with a
\* session record that parses in storage, a protected location renders the
\* loading view or its screen, never the redirect to login, so a restart
\* there stays there.
C26_LoadingGate ==
  /\ loading => Rendered = LoadingView
  /\ (route \in ProtectedRoutes /\ storage.femmoraUser.kind = "json") =>
        /\ Rendered \in {LoadingView, Screen(route)}
        /\ restored => Rendered = Screen(route)

\* a reload on a protected route with a persisted session, the mount effect
\* still to run
C26_Witness ==
  /\ loading
  /\ ~isAuthenticated
  /\ route \in ProtectedRoutes
  /\ storage.femmoraUser.kind = "json"
  /\ lastAuthOp = "login"

----------------------------------------------------------------------------
(* Quiz screen: invariants of the states reached through its buttons *)

\* C27: while the quiz state is active the batch is not empty and
\* 0 <= currentQuestionIndex < its length, so there is a current question;
\* and in every state 0 <= score <= currentQuestionIndex + 1 <=
\* QUESTIONS_PER_BATCH.
C27_IndexAndScoreBounds ==
  /\ quizState = "active" =>
        /\ Len(currentQuestions) > 0
        /\ 0 <= currentQuestionIndex
        /\ currentQuestionIndex < Len(currentQuestions)
  /\ 0 <= score
  /\ score <= currentQuestionIndex + 1
  /\ currentQuestionIndex + 1 <= QUESTIONS_PER_BATCH

\* the last question of a batch answered right, like every one before it
C27_Witness ==
  /\ quizState = "active"
  /\ currentQuestionIndex = Len(currentQuestions) - 1
  /\ currentQuestionIndex > 0
  /\ answerStatus = "correct"
  /\ score = currentQuestionIndex + 1

----------------------------------------------------------------------------
(* Seen-Question Record: who writes it *)

\* C28: the persisted record changes only in a handleNextQuestion step,
\* which adds the id of the current question, and in a startNewQuiz step,
\* which removes the record; startNewQuiz adds no id, handleAnswerSelect,
\* handleSubmitAnswer and leaving the screen change nothing, so a question
\* shown or answered but not advanced past is not in the record; and the
\* ids in the record are ids of the pool.
C28_SeenRecordFrame ==
  /\ [][storage'.femmoraSeenQuizQuestions # storage.femmoraSeenQuizQuestions =>
          \/ /\ handlerCall'.op = "next"
             /\ handlerCall'.question # 0
             /\ SeenRecord' = SeenRecord (+) SetToBag({handlerCall'.question})
          \/ /\ handlerCall'.op = "start"
             /\ storage'.femmoraSeenQuizQuestions = Absent]_vars
  /\ [](BagToSet(SeenRecord) \subseteq AllMockQuestionIds)

\* the screen is left with a question answered and not advanced past
C28_Witness ==
  /\ handlerCall.op = "mount"
  /\ handlerCall.status # "unanswered"
  /\ handlerCall.question # 0
  /\ ~BagIn(handlerCall.question, SeenRecord)
  /\ quizState = "idle"

\* C29: through the buttons, handleSubmitAnswer runs only while the question
\* is unanswered and handleNextQuestion only once it is correct or incorrect;
\* so a question is advanced past after exactly one submission, it is
\* submitted when no submission was made for it yet, and an id is added to the
\* record only for the current question and only when it has been answered.
C29_SubmitOnceThenNext ==
  [][/\ handlerCall'.op = "submit" =>
          /\ answerStatus = "unanswered"
          /\ selectedAnswer # NoAnswer
          /\ Len(answers) = currentQuestionIndex
          /\ answerStatus' # "unanswered"
     /\ handlerCall'.op = "next" =>
          /\ answerStatus \in {"correct", "incorrect"}
          /\ Len(answers) = currentQuestionIndex + 1
     /\ \A q \in AllMockQuestionIds :
          CopiesIn(q, SeenRecord') > CopiesIn(q, SeenRecord) =>
            /\ handlerCall'.op = "next"
            /\ q = currentQuestions[currentQuestionIndex + 1]
            /\ answerStatus \in {"correct", "incorrect"}]_vars

\* the first question of a batch was submitted once and then advanced past
C29_Witness ==
  /\ handlerCall.op = "next"
  /\ handlerCall.status \in {"correct", "incorrect"}
  /\ quizState = "active"
  /\ currentQuestionIndex = 1
  /\ Len(answers) = 1
  /\ answerStatus = "unanswered"
  /\ BagIn(handlerCall.question, SeenRecord)

----------------------------------------------------------------------------
(* The three stores together *)

\* the locations the user opens here: the quiz screen and the registration
\* form (the login form is where logout and the route gate lead)
StoresLocations == {"BRAIN_QUIZZES", "REGISTER"}

OpenLocation == UserNavigate /\ route' \in StoresLocations

\* the forms submitted with input they accept (a rejected submission calls
\* no operation of a store)
LoginAccepted        == SubmitLogin /\ loginCall'.called
RegistrationAccepted == SubmitRegistration /\ loginCall'.called

\* the application in use: the quiz screen's buttons, the language select,
\* the sidebar's logout, the forms and the router
NextStores ==
  \/ Start
  \/ Choose
  \/ Submit
  \/ Advance
  \/ SelectLanguage
  \/ ClickLogout
  \/ LoginAccepted
  \/ RegistrationAccepted
  \/ OpenLocation
  \/ RedirectEffect

SpecStores == InitQuiz /\ [][NextStores]_vars

\* C30: the three stores are independent in storage.  A step changes the
\* session key only by login or logout, the language key only by
\* setLanguage and the seen key only by a quiz operation, and each of these
\* changes no other key; logout leaves the language selection, its key and
\* the seen record as they are, and so does the login that follows.
C30_StoresIndependent ==
  [][/\ storage'.femmoraUser # storage.femmoraUser =>
          /\ \/ loginCall'.called
             \/ isAuthenticated /\ ~isAuthenticated' /\ user' = NoUser
          /\ storage'.femmoraLanguage = storage.femmoraLanguage
          /\ storage'.femmoraSeenQuizQuestions = storage.femmoraSeenQuizQuestions
     /\ storage'.femmoraLanguage # storage.femmoraLanguage =>
          /\ storage'.femmoraLanguage = Text(lastSetLang')
          /\ language' = lastSetLang'
          /\ storage'.femmoraUser = storage.femmoraUser
          /\ storage'.femmoraSeenQuizQuestions = storage.femmoraSeenQuizQuestions
     /\ storage'.femmoraSeenQuizQuestions # storage.femmoraSeenQuizQuestions =>
          /\ handlerCall'.op \in {"start", "next"}
          /\ storage'.femmoraUser = storage.femmoraUser
          /\ storage'.femmoraLanguage = storage.femmoraLanguage
     /\ handlerCall'.op \in {"start", "select", "submit", "next"} =>
          /\ storage'.femmoraUser = storage.femmoraUser
          /\ storage'.femmoraLanguage = storage.femmoraLanguage
     /\ (loginCall'.called \/ (isAuthenticated /\ ~isAuthenticated')) =>
          /\ storage'.femmoraLanguage = storage.femmoraLanguage
          /\ storage'.femmoraSeenQuizQuestions = storage.femmoraSeenQuizQuestions
          /\ language' = language]_vars

\* another user has just logged in and finds the language and the seen
\* record the user before left
C30_Witness ==
  /\ loginCall.called
  /\ loginCall.from = NoUser
  /\ user = loginCall.userData
  /\ user # DemoUser
  /\ storage.femmoraLanguage = Text(Language_HI)
  /\ language = Language_HI
  /\ storage.femmoraSeenQuizQuestions # Absent
  /\ SeenRecord # EmptyBag

====
